---- MODULE Spec2Model ----
(***************************************************************************)
(* Model of dataprep/tools_amazon.py: the pre-processing toolbox that      *)
(* turns the Twitter customer-support table into padded character-index    *)
(* matrices (get_amazon_dataset and the functions it calls).               *)
(*                                                                         *)
(* A text is a sequence of characters.  A character is a one-character     *)
(* string; characters that cannot be written in an ASCII string literal    *)
(* carry a name: "TAB" "LF" "CR" "VT" "FF" (the ASCII controls), "ZWSP"    *)
(* U+200B, "ZWJ" U+200D, "NBSP" U+00A0, "LSQUO" U+2018, "RSQUO" U+2019,    *)
(* "LDQUO" U+201C, "RDQUO" U+201D, "ACUTE" U+00B4, "MALE" U+2642,          *)
(* "FEMALE" U+2640, "VS16" U+FE0F, "SECT" U+00A7 (the URL tag) and "UUML"  *)
(* U+00FC (the out-of-alphabet tag); "BTICK" is the ASCII backtick.         *)
(***************************************************************************)
EXTENDS Integers, Sequences, FiniteSets, TLC

VARIABLES pc, df, alphabet, char2idx, exchanges, detected, Q, A, tweet, params, ret

vars == <<pc, df, alphabet, char2idx, exchanges, detected, Q, A, tweet, params, ret>>

(***************************************************************************)
(* Character classes of Python's str and re (Unicode mode).                *)
(***************************************************************************)
Digits == <<"0", "1", "2", "3", "4", "5", "6", "7", "8", "9">>

AsciiLowercase == <<"a", "b", "c", "d", "e", "f", "g", "h", "i", "j", "k", "l", "m",
                    "n", "o", "p", "q", "r", "s", "t", "u", "v", "w", "x", "y", "z">>

AsciiUppercase == <<"A", "B", "C", "D", "E", "F", "G", "H", "I", "J", "K", "L", "M",
                    "N", "O", "P", "Q", "R", "S", "T", "U", "V", "W", "X", "Y", "Z">>

Punctuation == <<"!", "\"", "#", "$", "%", "&", "'", "(", ")", "*", "+", ",", "-", ".",
                 "/", ":", ";", "<", "=", ">", "?", "@", "[", "\\", "]", "^", "_", "BTICK",
                 "{", "|", "}", "~">>

Whitespace == <<" ", "TAB", "LF", "CR", "VT", "FF">>

\* string.printable
Printable == Digits \o AsciiLowercase \o AsciiUppercase \o Punctuation \o Whitespace

Range(s) == {s[i] : i \in 1..Len(s)}

\* [0-9] of the regular expressions
IsDigit(c) == c \in Range(Digits)

\* \w of the regular expressions: alphanumeric (Unicode) or underscore
IsWord(c) == c \in Range(Digits) \cup Range(AsciiLowercase) \cup Range(AsciiUppercase)
                   \cup {"_", "UUML"}

\* \s of the regular expressions and the characters str.strip() trims
IsSpace(c) == c \in Range(Whitespace) \cup {"NBSP"}

(***************************************************************************)
(* str.replace(old, new): every non-overlapping occurrence, left to right. *)
(***************************************************************************)
StartsWith(s, pat) == Len(s) >= Len(pat) /\ SubSeq(s, 1, Len(pat)) = pat

EndsWith(s, pat) == Len(s) >= Len(pat) /\ SubSeq(s, Len(s) - Len(pat) + 1, Len(s)) = pat

Drop(s, n) == SubSeq(s, n + 1, Len(s))

RECURSIVE Replace(_, _, _)
Replace(s, old, new) ==
    IF Len(s) < Len(old) THEN s
    ELSE IF StartsWith(s, old) THEN new \o Replace(Drop(s, Len(old)), old, new)
    ELSE <<s[1]>> \o Replace(Tail(s), old, new)

\* str.lower() on the characters of the model (ASCII letters)
LowerChar(c) ==
    IF \E i \in 1..26 : AsciiUppercase[i] = c
    THEN AsciiLowercase[CHOOSE i \in 1..26 : AsciiUppercase[i] = c]
    ELSE c

Lower(s) == [i \in 1..Len(s) |-> LowerChar(s[i])]

(***************************************************************************)
(* The regular expressions of clean_text, each as re.sub applies it:       *)
(* leftmost match first, greedy, non-overlapping.                          *)
(***************************************************************************)
\* length of the longest prefix of s whose characters all satisfy the class
RECURSIVE DigitRun(_)
DigitRun(s) == IF s # <<>> /\ IsDigit(s[1]) THEN 1 + DigitRun(Tail(s)) ELSE 0

RECURSIVE NonSpaceRun(_)
NonSpaceRun(s) == IF s # <<>> /\ ~IsSpace(s[1]) THEN 1 + NonSpaceRun(Tail(s)) ELSE 0

RECURSIVE SpaceRun(_)
SpaceRun(s) == IF s # <<>> /\ s[1] = " " THEN 1 + SpaceRun(Tail(s)) ELSE 0

\* re.sub(r'@[0-9]+', '', tweet)
RECURSIVE SubRefIds(_)
SubRefIds(s) ==
    IF s = <<>> THEN s
    ELSE IF s[1] = "@" /\ DigitRun(Tail(s)) > 0
         THEN SubRefIds(Drop(s, 1 + DigitRun(Tail(s))))
         ELSE <<s[1]>> \o SubRefIds(Tail(s))

\* re.sub(r'(\^\w*)$', '', tweet): a caret followed by word characters only,
\* up to the end of the string
SubSignature(s) ==
    LET starts == {i \in 1..Len(s) :
                      /\ s[i] = "^"
                      /\ \A j \in (i + 1)..Len(s) : IsWord(s[j])}
    IN  IF starts = {} THEN s
        ELSE SubSeq(s, 1, (CHOOSE i \in starts : \A k \in starts : i <= k) - 1)

\* re.sub(r"\([0-9]/[0-9]\)", "", tweet)
IsPartMarker(s) ==
    /\ Len(s) >= 5
    /\ s[1] = "(" /\ IsDigit(s[2]) /\ s[3] = "/" /\ IsDigit(s[4]) /\ s[5] = ")"

RECURSIVE SubPartMarkers(_)
SubPartMarkers(s) ==
    IF s = <<>> THEN s
    ELSE IF IsPartMarker(s) THEN SubPartMarkers(Drop(s, 5))
    ELSE <<s[1]>> \o SubPartMarkers(Tail(s))

\* length of the match of https?://\S+|www\.\S+ at the start of s, 0 if none
UrlMatch(s) ==
    LET http  == <<"h", "t", "t", "p", ":", "/", "/">>
        https == <<"h", "t", "t", "p", "s", ":", "/", "/">>
        www   == <<"w", "w", "w", ".">>
        After(p) == IF StartsWith(s, p) /\ NonSpaceRun(Drop(s, Len(p))) > 0
                    THEN Len(p) + NonSpaceRun(Drop(s, Len(p))) ELSE 0
    IN  IF After(https) > 0 THEN After(https)
        ELSE IF After(http) > 0 THEN After(http)
        ELSE After(www)

\* re.sub(r'https?://\S+|www\.\S+', SECT, tweet)
RECURSIVE SubUrls(_)
SubUrls(s) ==
    IF s = <<>> THEN s
    ELSE IF UrlMatch(s) > 0 THEN <<"SECT">> \o SubUrls(Drop(s, UrlMatch(s)))
    ELSE <<s[1]>> \o SubUrls(Tail(s))

\* a collapse written as tweet.replace('  ', ' '): pairs of spaces only
CollapseSpacesPairs(s) == Replace(s, <<" ", " ">>, <<" ">>)

\* re.sub(' +', ' ', tweet)
RECURSIVE CollapseSpaces(_)
CollapseSpaces(s) ==
    IF s = <<>> THEN s
    ELSE IF s[1] = " " THEN <<" ">> \o CollapseSpaces(Drop(s, SpaceRun(s)))
    ELSE <<s[1]>> \o CollapseSpaces(Tail(s))

\* str.strip()
RECURSIVE LStrip(_)
LStrip(s) == IF s # <<>> /\ IsSpace(s[1]) THEN LStrip(Tail(s)) ELSE s

RECURSIVE RStrip(_)
RStrip(s) == IF s # <<>> /\ IsSpace(s[Len(s)]) THEN RStrip(SubSeq(s, 1, Len(s) - 1)) ELSE s

Strip(s) == RStrip(LStrip(s))

(***************************************************************************)
(* clean_text, statement by statement.                                     *)
(***************************************************************************)
\* the single-character replacements of lines 69-83, in order
CharReplacements ==
    << <<"TAB", " ">>, <<"LF", " ">>, <<"CR", " ">>, <<"VT", " ">>, <<"FF", " ">>,
       <<"ZWSP", " ">>, <<"ZWJ", " ">>, <<";", ",">>, <<"LSQUO", "'">>, <<"LSQUO", "'">>,
       <<"ACUTE", "'">>, <<"BTICK", "'">>, <<"RSQUO", "'">>, <<"RDQUO", "'">>, <<"LDQUO", "'">> >>

RECURSIVE ReplaceChars(_, _)
ReplaceChars(s, k) ==
    IF k > Len(CharReplacements) THEN s
    ELSE ReplaceChars(Replace(s, <<CharReplacements[k][1]>>, <<CharReplacements[k][2]>>), k + 1)

\* lines 85-88: backslash-brace and backslash-bracket to backslash-parenthesis
ReplaceBrackets(s) ==
    Replace(Replace(Replace(Replace(s,
        <<"\\", "{">>, <<"\\", "(">>),
        <<"\\", "}">>, <<"\\", ")">>),
        <<"\\", "[">>, <<"\\", "(">>),
        <<"\\", "]">>, <<"\\", ")">>)

\* lines 90-91
ReplaceEntities(s) ==
    Replace(Replace(s, <<"&", "a", "m", "p", ";">>, <<"&">>),
            <<"@", "a", "m", "a", "z", "o", "n", "h", "e", "l", "p">>, <<>>)

\* lines 95-96
ReplaceEmoji(s) ==
    Replace(Replace(s, <<"ZWJ", "MALE", "VS16">>, <<>>), <<"ZWJ", "FEMALE", "VS16">>, <<>>)

clean_text(t) ==
    LET t1 == ReplaceChars(t, 1)
        t2 == ReplaceBrackets(t1)
        t3 == ReplaceEntities(t2)
        t4 == SubRefIds(t3)
        t5 == SubSignature(t4)
        t6 == ReplaceEmoji(t5)
        t7 == SubPartMarkers(t6)
        t8 == SubUrls(t7)
        t9 == CollapseSpaces(t8)
    IN  Strip(t9)

(***************************************************************************)
(* generate_alphabet, and the character index built from it.               *)
(***************************************************************************)
\* the third replace taking all of string.whitespace, the space included
generate_alphabet_without_space ==
    LET a1 == Replace(Printable, AsciiUppercase, <<>>)
        a2 == Replace(a1, <<"[", "\\", "]", "^", "_", "BTICK", "{", "|", "}", "~">>, <<>>)
        a3 == Replace(a2, Whitespace, <<>>)
        a4 == Replace(a3, <<";", "<", "=", ">">>, <<>>)
    IN  Replace(a4, <<"*", "+">>, <<>>)

generate_alphabet ==
    LET a1 == Replace(Printable, AsciiUppercase, <<>>)
        a2 == Replace(a1, <<"[", "\\", "]", "^", "_", "BTICK", "{", "|", "}", "~">>, <<>>)
        a3 == Replace(a2, <<"TAB", "LF", "CR", "VT", "FF">>, <<>>)
        a4 == Replace(a3, <<";", "<", "=", ">">>, <<>>)
    IN  Replace(a4, <<"*", "+">>, <<>>)

\* { char[1]: char[0] for char in enumerate(alphabet, 1) }: a later
\* occurrence of a character overwrites an earlier one
Char2Idx(alpha) ==
    [c \in Range(alpha) |->
        CHOOSE i \in 1..Len(alpha) : alpha[i] = c /\ \A j \in 1..Len(alpha) : alpha[j] = c => j <= i]

(***************************************************************************)
(* process_x_text and process_y_text.                                      *)
(***************************************************************************)
process_x_text(t, alpha) ==
    LET marked == [i \in 1..Len(t) |-> IF t[i] \in Range(alpha) THEN t[i] ELSE "UUML"]
    IN  Strip(CollapseSpaces(marked))

\* process_y_text written as a copy of process_x_text (the marker kept)
process_y_text_marker(t, alpha) == process_x_text(t, alpha)

process_y_text(t, alpha) ==
    LET blanked == [i \in 1..Len(t) |-> IF t[i] \in Range(alpha) THEN t[i] ELSE " "]
    IN  Strip(CollapseSpaces(blanked))

(***************************************************************************)
(* vectorize_tweet and vectorize_dataset.  A matrix is a sequence of rows, *)
(* a row a sequence of numbers; the values are small integers, which       *)
(* float64 and float32 hold exactly.                                       *)
(***************************************************************************)
vectorize_tweet(t, c2i) ==
    [i \in 1..Len(t) |-> IF t[i] \in DOMAIN c2i THEN c2i[t[i]] ELSE 0]

Zeros(n) == [i \in 1..n |-> 0]

\* len(max(rows, key=len)) of a non-empty list of rows
MaxRowLen(rows) ==
    CHOOSE n \in {Len(rows[i]) : i \in 1..Len(rows)} :
        \A i \in 1..Len(rows) : Len(rows[i]) <= n

Max2(a, b) == IF a >= b THEN a ELSE b

\* max(..., default=...) in place of max(...): nothing raised for an empty list
vectorize_dataset_never_raises(rows) == FALSE

\* max() of an empty list raises ValueError (line 207)
vectorize_dataset_raises(rows) == Len(rows) = 0

\* padding appended on the right of every row instead of the left
vectorize_dataset_padright(rows, c2i) ==
    LET Qv == [i \in 1..Len(rows) |-> vectorize_tweet(rows[i].text_x, c2i)]
        Av == [i \in 1..Len(rows) |-> vectorize_tweet(rows[i].text_y, c2i)]
        max_length == Max2(MaxRowLen(Qv), MaxRowLen(Av))
    IN  [Q |-> [i \in 1..Len(rows) |-> Qv[i] \o Zeros(max_length - Len(Qv[i]))],
         A |-> [i \in 1..Len(rows) |-> Av[i] \o Zeros(max_length - Len(Av[i]))]]

\* the returned pair (Q, A); defined when vectorize_dataset does not raise
vectorize_dataset(rows, c2i) ==
    LET Qv == [i \in 1..Len(rows) |-> vectorize_tweet(rows[i].text_x, c2i)]
        Av == [i \in 1..Len(rows) |-> vectorize_tweet(rows[i].text_y, c2i)]
        max_length == Max2(MaxRowLen(Qv), MaxRowLen(Av))
    IN  [Q |-> [i \in 1..Len(rows) |-> Zeros(max_length - Len(Qv[i])) \o Qv[i]],
         A |-> [i \in 1..Len(rows) |-> Zeros(max_length - Len(Av[i])) \o Av[i]]]

(***************************************************************************)
(* The float arithmetic of train_test_val_split.  val_size and test_size   *)
(* are Python floats (IEEE 754 binary64); the cutoffs are computed in      *)
(* binary64 and truncated by int().  TLC's integers are too narrow for a   *)
(* 53-bit significand, so a natural number is a sequence of limbs of       *)
(* LimbBits bits, least significant first, without leading zero limbs; a   *)
(* float is sign, significand and exponent: (-1)^neg * m * 2^e.            *)
(***************************************************************************)
MantissaBits == 53

LimbBits == 12

Base == 2 ^ LimbBits

RECURSIVE Norm(_)
Norm(b) == IF b # <<>> /\ b[Len(b)] = 0 THEN Norm(SubSeq(b, 1, Len(b) - 1)) ELSE b

RECURSIVE LimbsOf(_)
LimbsOf(n) == IF n = 0 THEN <<>> ELSE <<n % Base>> \o LimbsOf(n \div Base)

RECURSIVE ToInt(_)
ToInt(b) == IF b = <<>> THEN 0 ELSE b[1] + Base * ToInt(Tail(b))

Limb(b, i) == IF i <= Len(b) THEN b[i] ELSE 0

RECURSIVE AddCarry(_, _, _)
AddCarry(a, b, c) ==
    IF a = <<>> /\ b = <<>> THEN (IF c = 0 THEN <<>> ELSE <<c>>)
    ELSE <<(Limb(a, 1) + Limb(b, 1) + c) % Base>>
            \o AddCarry(Drop(a, 1), Drop(b, 1), (Limb(a, 1) + Limb(b, 1) + c) \div Base)

BAdd(a, b) == Norm(AddCarry(a, b, 0))

\* a - b for a >= b
RECURSIVE SubBorrow(_, _, _)
SubBorrow(a, b, c) ==
    IF a = <<>> THEN <<>>
    ELSE <<(a[1] - Limb(b, 1) - c) % Base>>
            \o SubBorrow(Tail(a), Drop(b, 1), IF a[1] - Limb(b, 1) - c < 0 THEN 1 ELSE 0)

BSub(a, b) == Norm(SubBorrow(a, b, 0))

\* a < b, for normalized a and b
BLess(a, b) ==
    \/ Len(a) < Len(b)
    \/ /\ Len(a) = Len(b)
       /\ \E i \in 1..Len(a) :
             /\ a[i] < b[i]
             /\ \A j \in (i + 1)..Len(a) : a[j] = b[j]

\* a * n for a small natural number n
RECURSIVE MulCarry(_, _, _)
MulCarry(a, n, c) ==
    IF a = <<>> THEN LimbsOf(c)
    ELSE <<(a[1] * n + c) % Base>> \o MulCarry(Tail(a), n, (a[1] * n + c) \div Base)

BMulSmall(a, n) == Norm(MulCarry(a, n, 0))

\* quotient (in q, least significant limb first) and remainder of a by a small
\* d > 0: long division from the most significant limb, r the running remainder
RECURSIVE DivRem(_, _, _, _)
DivRem(a, d, r, q) ==
    IF a = <<>> THEN [q |-> Norm(q), r |-> r]
    ELSE DivRem(SubSeq(a, 1, Len(a) - 1), d, (Base * r + a[Len(a)]) % d,
                <<(Base * r + a[Len(a)]) \div d>> \o q)

\* a * 2^k
ShiftL(a, k) ==
    IF a = <<>> THEN <<>>
    ELSE Zeros(k \div LimbBits) \o BMulSmall(a, 2 ^ (k % LimbBits))

\* floor(a / 2^k)
ShiftR(a, k) == DivRem(Drop(a, k \div LimbBits), 2 ^ (k % LimbBits), 0, <<>>).q

\* the number of bits of a normalized a
BitLen(a) ==
    IF a = <<>> THEN 0
    ELSE LimbBits * (Len(a) - 1)
           + (CHOOSE j \in 1..LimbBits : 2 ^ (j - 1) <= a[Len(a)] /\ a[Len(a)] < 2 ^ j)

\* a / 2^k rounded to the nearest integer, ties to even
RoundShift(a, k) ==
    LET q    == ShiftR(a, k)
        rem2 == BMulSmall(BSub(a, ShiftL(q, k)), 2)
        one  == ShiftL(<<1>>, k)
        up   == BLess(one, rem2) \/ (rem2 = one /\ Limb(q, 1) % 2 = 1)
    IN  IF up THEN BAdd(q, <<1>>) ELSE q

\* the binary64 nearest to (-1)^neg * m * 2^e
Round53(neg, m, e) ==
    IF BitLen(m) <= MantissaBits THEN [neg |-> neg, m |-> m, e |-> e]
    ELSE [neg |-> neg, m |-> RoundShift(m, BitLen(m) - MantissaBits),
          e |-> e + (BitLen(m) - MantissaBits)]

\* the float of the decimal fraction k/d (0 <= k, 0 < d), correctly rounded:
\* twice the quotient of k * 2^64 by d, plus a sticky bit for the remainder
FloatOfRatio(k, d) ==
    LET dr == DivRem(ShiftL(LimbsOf(k), 64), d, 0, <<>>)
    IN  IF k = 0 THEN [neg |-> FALSE, m |-> <<>>, e |-> 0]
        ELSE Round53(FALSE, BAdd(BMulSmall(dr.q, 2), LimbsOf(IF dr.r = 0 THEN 0 ELSE 1)), -65)

FloatOfInt(n) == [neg |-> FALSE, m |-> LimbsOf(n), e |-> 0]

MinExp(x, y) == IF x.e <= y.e THEN x.e ELSE y.e

\* x + y for x, y >= 0
FAdd(x, y) ==
    Round53(FALSE, BAdd(ShiftL(x.m, x.e - MinExp(x, y)), ShiftL(y.m, y.e - MinExp(x, y))),
            MinExp(x, y))

\* x - y for x, y >= 0
FSub(x, y) ==
    LET a == ShiftL(x.m, x.e - MinExp(x, y))
        b == ShiftL(y.m, y.e - MinExp(x, y))
    IN  IF BLess(a, b) THEN Round53(TRUE, BSub(b, a), MinExp(x, y))
        ELSE Round53(FALSE, BSub(a, b), MinExp(x, y))

\* n * x for a row count n (an int, converted to float exactly)
FMulInt(n, x) == Round53(x.neg, BMulSmall(x.m, n), x.e)

\* int(x): truncation toward zero
IntOfFloat(x) ==
    LET mag == IF x.e >= 0 THEN ToInt(ShiftL(x.m, x.e)) ELSE ToInt(ShiftR(x.m, -x.e))
    IN  IF x.neg THEN -mag ELSE mag

(***************************************************************************)
(* train_test_val_split.  perm is the order sklearn.utils.shuffle gives    *)
(* the rows for the seed: the same order for Q and A.                      *)
(***************************************************************************)
\* seq[lo:hi] of Python, negative and out-of-range bounds included
Slice(seq, lo, hi) ==
    LET Clip(i) == IF i < 0 THEN (IF Len(seq) + i < 0 THEN 0 ELSE Len(seq) + i)
                   ELSE IF i > Len(seq) THEN Len(seq) ELSE i
    IN  SubSeq(seq, Clip(lo) + 1, Clip(hi))

Shuffle(rows, perm) == [i \in 1..Len(rows) |-> rows[perm[i]]]

RowOrders(n) == {f \in [1..n -> 1..n] : \A i, j \in 1..n : f[i] = f[j] => i = j}

\* int( Q.shape[0] * (1-(val_size+test_size)) )
TrainValCutoff(n, val_size, test_size) ==
    IntOfFloat(FMulInt(n, FSub(FloatOfInt(1), FAdd(val_size, test_size))))

\* int( Q.shape[0] * (1 - test_size) )
ValTestCutoff(n, test_size) ==
    IntOfFloat(FMulInt(n, FSub(FloatOfInt(1), test_size)))

train_test_val_split(Qm, Am, val_size, test_size, perm) ==
    LET Qs == Shuffle(Qm, perm)
        As == Shuffle(Am, perm)
        train_val_cutoff == TrainValCutoff(Len(Qs), val_size, test_size)
        val_test_cutoff  == ValTestCutoff(Len(Qs), test_size)
    IN  [Q_train |-> Slice(Qs, 0, train_val_cutoff),
         A_train |-> Slice(As, 0, train_val_cutoff),
         Q_val   |-> Slice(Qs, train_val_cutoff, val_test_cutoff),
         A_val   |-> Slice(As, train_val_cutoff, val_test_cutoff),
         Q_test  |-> Slice(Qs, val_test_cutoff, Len(Qs)),
         A_test  |-> Slice(As, val_test_cutoff, Len(As))]

(***************************************************************************)
(* check_language.  langdetect.detect is an external classifier: what it   *)
(* answers for a text (a language tag, or an exception) is an input of the *)
(* run.  The product names removed before the call change only the text    *)
(* the classifier is given.                                                *)
(***************************************************************************)
DetectOutcomes == {"en", "ja", "LangDetectException"}

\* the bare except returns 'en' but keeps no language tag
check_language_strict(outcome) ==
    IF outcome = "LangDetectException" THEN "unknown" ELSE outcome

check_language(outcome) ==
    IF outcome = "LangDetectException" THEN "en" ELSE outcome

(***************************************************************************)
(* organize_QA_dataframe, statement by statement.  A table is a sequence   *)
(* of rows (records); NaN stands for a missing in_response_to_tweet_id.    *)
(***************************************************************************)
NaN == 0

\* line 149 without the isna() test
SelectStarters_inbound_only(table) == SelectSeq(table, LAMBDA r : r.inbound)

\* line 149: df[ df['inbound'] & (df['in_response_to_tweet_id'].isna()) ]
SelectStarters(table) ==
    SelectSeq(table, LAMBDA r : r.inbound /\ r.in_response_to_tweet_id = NaN)

\* the rows of the inner join for one left row, in the order of the right table
JoinOne(l, right) ==
    LET matches == SelectSeq(right, LAMBDA r : r.in_response_to_tweet_id = l.tweet_id)
    IN  [k \in 1..Len(matches) |->
            [tweet_id |-> l.tweet_id, author_id_x |-> l.author_id, inbound |-> l.inbound,
             text_x |-> l.text, in_response_to_tweet_id_x |-> l.in_response_to_tweet_id,
             author_id_y |-> matches[k].author_id, text_y |-> matches[k].text,
             in_response_to_tweet_id_y |-> matches[k].in_response_to_tweet_id]]

\* lines 152-154: exchanges.merge(df[[...]], left_on='tweet_id',
\* right_on='in_response_to_tweet_id'), an inner join in the order of the left keys
RECURSIVE Merge(_, _)
Merge(left, right) ==
    IF left = <<>> THEN <<>> ELSE JoinOne(left[1], right) \o Merge(Tail(left), right)

\* lines 156-157
FilterCompany(rows) ==
    LET kept == SelectSeq(rows, LAMBDA r : r.author_id_y = "AmazonHelp")
    IN  [k \in 1..Len(kept) |-> [text_x |-> kept[k].text_x, text_y |-> kept[k].text_y]]

\* lines 160-161
LowerTexts(rows) ==
    [k \in 1..Len(rows) |-> [text_x |-> Lower(rows[k].text_x), text_y |-> Lower(rows[k].text_y)]]

\* lines 164-165: outcomes[k] is what the classifier answers for row k
AddLanguage(rows, outcomes) ==
    [k \in 1..Len(rows) |->
        [text_x |-> rows[k].text_x, text_y |-> rows[k].text_y,
         english_x |-> check_language(outcomes[k].x),
         english_y |-> check_language(outcomes[k].y)]]

\* lines 166-167
KeepEnglishRows(rows) ==
    LET kept == SelectSeq(rows, LAMBDA r : r.english_x = "en" /\ r.english_y = "en")
    IN  [k \in 1..Len(kept) |-> [text_x |-> kept[k].text_x, text_y |-> kept[k].text_y]]

PartOneOfTwo == <<"(", "1", "/", "2", ")">>

PartTwoOfTwo == <<"(", "2", "/", "2", ")">>

\* the test of line 170 with the second suffix forgotten
IsComplete_first_suffix_only(t) == ~EndsWith(t, PartOneOfTwo)

\* line 170
IsComplete(t) == ~EndsWith(t, PartOneOfTwo) /\ ~EndsWith(t, PartTwoOfTwo)

KeepCompleteRows(rows) == SelectSeq(rows, LAMBDA r : IsComplete(r.text_y))

\* lines 173-174
CleanRows(rows) ==
    [k \in 1..Len(rows) |->
        [text_x |-> clean_text(rows[k].text_x), text_y |-> clean_text(rows[k].text_y)]]

\* lines 177-178
ProjectRows(rows, alpha) ==
    [k \in 1..Len(rows) |->
        [text_x |-> process_x_text(rows[k].text_x, alpha),
         text_y |-> process_y_text(rows[k].text_y, alpha)]]

\* np.expand_dims(M, axis = -1)
ExpandDims(matrix) ==
    [i \in 1..Len(matrix) |-> [j \in 1..Len(matrix[i]) |-> <<matrix[i][j]>>]]

(***************************************************************************)
(* Bounded inputs for clean_text: a text is a concatenation of at most     *)
(* MaxFragments of the fragments below, which cover every pattern that     *)
(* clean_text looks for.                                                   *)
(***************************************************************************)
MaxFragments == 2

Fragments ==
    { <<"@", "a", "m", "a", "z", "o", "n", "h", "e", "l", "p">>,
      <<"@", "1">>, <<"@">>, <<"1">>,
      <<"^", "i", "b">>,
      <<" ">>, <<"TAB">>, <<"CR", "LF">>, <<"VT", "FF", "ZWSP", "o">>, <<"NBSP">>,
      <<"(", "1", "/", "2", ")">>, <<"(", "1">>, <<"/", "2", ")">>,
      <<"w", "w", "w", ".", "a">>, <<"h", "t", "t", "p", ":", "/", "/", "a">>,
      <<"h", "t", "t", "p", "s", ":", "/", "/", "a">>,
      <<";">>, <<"&", "a", "m", "p", ";">>,
      <<"ZWJ", "MALE", "VS16">>, <<"ZWJ", "FEMALE", "VS16">>,
      <<"LSQUO", "ACUTE", "BTICK">>, <<"RSQUO", "RDQUO", "LDQUO">>,
      <<"\\", "{">>, <<"\\", "}", "\\", "[", "\\", "]">>,
      <<"h", "i">> }

RECURSIVE Concats(_, _)
Concats(frags, n) ==
    IF n = 0 THEN {<<>>}
    ELSE LET prev == Concats(frags, n - 1)
         IN  prev \cup {p \o f : p \in prev, f \in frags}

CleanInputs == Concats(Fragments, MaxFragments)

(***************************************************************************)
(* clean_text called on a text, then on its own result.                    *)
(***************************************************************************)
NoTable == <<>>

CleanInit ==
    /\ pc = "clean"
    /\ tweet \in CleanInputs
    /\ ret = <<>>
    /\ df = NoTable /\ exchanges = NoTable /\ detected = NoTable
    /\ alphabet = <<>> /\ char2idx = <<>> /\ Q = <<>> /\ A = <<>> /\ params = <<>>

CleanOnce ==
    /\ pc = "clean"
    /\ ret' = <<clean_text(tweet)>>
    /\ pc' = "clean_again"
    /\ UNCHANGED <<df, alphabet, char2idx, exchanges, detected, Q, A, tweet, params>>

CleanTwice ==
    /\ pc = "clean_again"
    /\ ret' = Append(ret, clean_text(ret[1]))
    /\ pc' = "cleaned"
    /\ UNCHANGED <<df, alphabet, char2idx, exchanges, detected, Q, A, tweet, params>>

CleanNext == CleanOnce \/ CleanTwice

SpecClean == CleanInit /\ [][CleanNext]_vars

(***************************************************************************)
(* Properties of clean_text (specification SpecClean).                     *)
(***************************************************************************)
EmojiMale == <<"ZWJ", "MALE", "VS16">>

EmojiFemale == <<"ZWJ", "FEMALE", "VS16">>

Contains(s, pat) == \E i \in 0..(Len(s) - Len(pat)) : SubSeq(s, i + 1, i + Len(pat)) = pat

\* the characters from which one pass of clean_text can build a pattern that
\* only a second pass removes
Rematching == {"@", "^", "(", "\\"}

\* C1 as stated: clean_text(clean_text(s)) = clean_text(s) for every string s.
C1_Idempotent == pc = "cleaned" => ret[2] = ret[1]

\* C1 amended: for every string s that contains no '@', no '^', no '(' and no
\* backslash, clean_text(clean_text(s)) = clean_text(s).
C1_IdempotentWithoutRematching ==
    (pc = "cleaned" /\ Range(tweet) \cap Rematching = {}) => ret[2] = ret[1]

\* a text without those characters in which clean_text replaced a URL and
\* collapsed spaces, cleaned twice
C1_Witness ==
    /\ pc = "cleaned"
    /\ Range(tweet) \cap Rematching = {}
    /\ Contains(tweet, <<"w", "w", "w", ".">>)
    /\ Contains(tweet, <<"CR", "LF">>)
    /\ "SECT" \in Range(ret[1])
    /\ ret[2] = ret[1]

\* C9: for every input that contains one of the two emoji sequences (joiner,
\* gendered sign, variation selector) the output of clean_text contains
\* neither the joiner nor the gendered sign that followed it.
C9_EmojiSequenceRemoved ==
    /\ (pc = "clean_again" /\ Contains(tweet, EmojiMale))
          => ("ZWJ" \notin Range(ret[1]) /\ "MALE" \notin Range(ret[1]))
    /\ (pc = "clean_again" /\ Contains(tweet, EmojiFemale))
          => ("ZWJ" \notin Range(ret[1]) /\ "FEMALE" \notin Range(ret[1]))

(***************************************************************************)
(* process_x_text and process_y_text called on a text and an alphabet.     *)
(***************************************************************************)
MaxTweetLen == 3

ProjectChars == <<"a", " ", "NBSP", "UUML", "SECT">>

RECURSIVE TextsUpTo(_, _)
TextsUpTo(chars, n) ==
    IF n = 0 THEN {<<>>}
    ELSE LET prev == TextsUpTo(chars, n - 1)
         IN  prev \cup {Append(p, c) : p \in prev, c \in Range(chars)}

\* every alphabet made of characters of ProjectChars, in their order
ProjectAlphabets ==
    {SelectSeq(ProjectChars, LAMBDA c : c \in S) : S \in SUBSET Range(ProjectChars)}

ProjectInit ==
    /\ pc = "project_x"
    /\ tweet \in TextsUpTo(ProjectChars, MaxTweetLen)
    /\ alphabet \in ProjectAlphabets
    /\ ret = <<>>
    /\ df = NoTable /\ exchanges = NoTable /\ detected = NoTable
    /\ char2idx = <<>> /\ Q = <<>> /\ A = <<>> /\ params = <<>>

ProjectX ==
    /\ pc = "project_x"
    /\ ret' = <<process_x_text(tweet, alphabet)>>
    /\ pc' = "project_y"
    /\ UNCHANGED <<df, alphabet, char2idx, exchanges, detected, Q, A, tweet, params>>

ProjectY ==
    /\ pc = "project_y"
    /\ ret' = Append(ret, process_y_text(tweet, alphabet))
    /\ pc' = "projected"
    /\ UNCHANGED <<df, alphabet, char2idx, exchanges, detected, Q, A, tweet, params>>

ProjectNext == ProjectX \/ ProjectY

SpecProject == ProjectInit /\ [][ProjectNext]_vars

NoSpaceRunsOrEdges(t) ==
    /\ \A i \in 1..(Len(t) - 1) : ~(t[i] = " " /\ t[i + 1] = " ")
    /\ t # <<>> => (t[1] # " " /\ t[Len(t)] # " ")

\* C5: every character of process_x_text(s, A) is in A or is the marker,
\* every character of process_y_text(s, A) is in A or is a space, and neither
\* result has two consecutive spaces or a leading or trailing space.
C5_ProjectionClosed ==
    pc = "projected" =>
        /\ Range(ret[1]) \subseteq Range(alphabet) \cup {"UUML"}
        /\ Range(ret[2]) \subseteq Range(alphabet) \cup {" "}
        /\ NoSpaceRunsOrEdges(ret[1])
        /\ NoSpaceRunsOrEdges(ret[2])

\* a text with a space run and a character outside the alphabet: the question
\* side got the marker, the answer side an inner space
C5_Witness ==
    /\ pc = "projected"
    /\ tweet = <<"a", "SECT", "a">>
    /\ alphabet = <<"a", " ">>
    /\ ret = << <<"a", "UUML", "a">>, <<"a", " ", "a">> >>

(***************************************************************************)
(* vectorize_dataset called on a table of projected exchanges.             *)
(***************************************************************************)
MaxVecRows == 2

VecTexts == { <<>>, <<"a">>, <<"UUML", "b">>, <<"o", "k", " ", "1">> }

VecRows == [text_x : VecTexts, text_y : VecTexts]

RECURSIVE TablesUpTo(_, _)
TablesUpTo(rows, n) ==
    IF n = 0 THEN {<<>>}
    ELSE LET prev == TablesUpTo(rows, n - 1)
         IN  prev \cup {Append(p, r) : p \in prev, r \in rows}

VecInit ==
    /\ pc = "vectorize"
    /\ exchanges \in TablesUpTo(VecRows, MaxVecRows)
    /\ alphabet = generate_alphabet
    /\ char2idx = Char2Idx(generate_alphabet)
    /\ Q = <<>> /\ A = <<>>
    /\ df = NoTable /\ detected = NoTable /\ tweet = <<>> /\ params = <<>> /\ ret = <<>>

VecRaise ==
    /\ pc = "vectorize"
    /\ vectorize_dataset_raises(exchanges)
    /\ pc' = "ValueError"
    /\ UNCHANGED <<df, alphabet, char2idx, exchanges, detected, Q, A, tweet, params, ret>>

VecReturn ==
    /\ pc = "vectorize"
    /\ ~vectorize_dataset_raises(exchanges)
    /\ Q' = vectorize_dataset(exchanges, char2idx).Q
    /\ A' = vectorize_dataset(exchanges, char2idx).A
    /\ pc' = "vectorized"
    /\ UNCHANGED <<df, alphabet, char2idx, exchanges, detected, tweet, params, ret>>

VecNext == VecRaise \/ VecReturn

SpecVec == VecInit /\ [][VecNext]_vars

\* the code of a character: its index, 0 when the index has no such key
CodeOf(c) == IF c \in DOMAIN char2idx THEN char2idx[c] ELSE 0

\* row is text s left-padded with zeros to width w
LeftPadded(row, s, w) ==
    /\ Len(row) = w
    /\ Len(s) <= w
    /\ \A j \in 1..w :
          row[j] = IF j <= w - Len(s) THEN 0 ELSE CodeOf(s[j - (w - Len(s))])

\* C2: for a non-empty table every row of Q and of A has width W, the longest
\* text of either column, and is W - len(s) zeros followed by the codes of its
\* text s in order.
C2_LeftPaddedToCommonWidth ==
    (pc = "vectorized" /\ Len(exchanges) > 0) =>
        LET lens == {Len(exchanges[i].text_x) : i \in 1..Len(exchanges)}
                      \cup {Len(exchanges[i].text_y) : i \in 1..Len(exchanges)}
            W == CHOOSE n \in lens : \A m \in lens : m <= n
        IN  /\ Len(Q) = Len(exchanges) /\ Len(A) = Len(exchanges)
            /\ \A i \in 1..Len(exchanges) :
                  /\ LeftPadded(Q[i], exchanges[i].text_x, W)
                  /\ LeftPadded(A[i], exchanges[i].text_y, W)

\* two exchanges of different lengths, the longest text on the answer side
C2_Witness ==
    /\ pc = "vectorized"
    /\ Len(exchanges) = 2
    /\ exchanges[1].text_x = <<"a">> /\ exchanges[1].text_y = <<"o", "k", " ", "1">>
    /\ exchanges[2].text_x = <<"UUML", "b">> /\ exchanges[2].text_y = <<>>
    /\ Len(Q[1]) = 4 /\ Q[1][4] > 0 /\ A[2] = Zeros(4)

(***************************************************************************)
(* train_test_val_split called on N paired rows.  Row i of Q is <<i>> and  *)
(* row i of A is <<N + i>>, so that a row tells where it came from.  The   *)
(* fractions are the floats of k / SplitDenominator, kept in params as the *)
(* numerators <<val, test>>.                                               *)
(***************************************************************************)
MaxSplitRows == 5

SplitDenominator == 10

SplitFractions ==
    {vt \in (0..SplitDenominator) \X (0..SplitDenominator) : vt[1] + vt[2] <= SplitDenominator}

SplitInit ==
    /\ pc = "split"
    /\ \E n \in 0..MaxSplitRows :
          /\ Q = [i \in 1..n |-> <<i>>]
          /\ A = [i \in 1..n |-> <<n + i>>]
    /\ params \in SplitFractions
    /\ ret = <<>>
    /\ df = NoTable /\ exchanges = NoTable /\ detected = NoTable
    /\ alphabet = <<>> /\ char2idx = <<>> /\ tweet = <<>>

Split ==
    /\ pc = "split"
    /\ \E perm \in RowOrders(Len(Q)) :
          ret' = train_test_val_split(Q, A,
                                      FloatOfRatio(params[1], SplitDenominator),
                                      FloatOfRatio(params[2], SplitDenominator), perm)
    /\ pc' = "split_done"
    /\ UNCHANGED <<df, alphabet, char2idx, exchanges, detected, Q, A, tweet, params>>

SplitNext == Split

SpecSplit == SplitInit /\ [][SplitNext]_vars

(***************************************************************************)
(* get_amazon_dataset: one run over a message table of at most MaxMessages *)
(* rows.  pc names the statement about to run.                             *)
(***************************************************************************)
MaxMessages == 2

\* who wrote a message, and whether it is flagged inbound
Senders ==
    { [author_id |-> "115712", inbound |-> TRUE],
      [author_id |-> "AmazonHelp", inbound |-> FALSE],
      [author_id |-> "AppleSupport", inbound |-> FALSE] }

Texts ==
    { <<"H", "i", " ", "u">>,
      <<"k", "(", "1", "/", "2", ")">>,
      <<"k", "(", "2", "/", "2", ")">>,
      <<"a", "MALE", "b">> }

\* the messages that can stand at row id of a table
Messages(id) ==
    { [tweet_id |-> id, author_id |-> s.author_id, inbound |-> s.inbound, text |-> t,
       in_response_to_tweet_id |-> r] :
         s \in Senders, t \in Texts, r \in ({NaN} \cup (1..MaxMessages)) \ {id} }

RECURSIVE MessageTables(_)
MessageTables(n) ==
    IF n = 0 THEN {<<>>}
    ELSE LET prev == MessageTables(n - 1)
         IN  prev \cup {Append(p, msg) : p \in {q \in prev : Len(q) = n - 1}, msg \in Messages(n)}

\* params['val_test_size'] as numerators over SplitDenominator: (0.1, 0.1)
ValTestSize == <<1, 1>>

Init ==
    /\ pc = "read_csv"
    /\ df = NoTable /\ exchanges = NoTable /\ detected = NoTable
    /\ alphabet = <<>> /\ char2idx = <<>> /\ Q = <<>> /\ A = <<>>
    /\ tweet = <<>> /\ ret = <<>>
    /\ params = ValTestSize

\* lines 260-267
ReadCsv ==
    /\ pc = "read_csv"
    /\ df' \in MessageTables(MaxMessages)
    /\ alphabet' = generate_alphabet
    /\ char2idx' = Char2Idx(generate_alphabet)
    /\ pc' = "select"
    /\ UNCHANGED <<exchanges, detected, Q, A, tweet, params, ret>>

\* line 149
Select ==
    /\ pc = "select"
    /\ exchanges' = SelectStarters(df)
    /\ pc' = "merge"
    /\ UNCHANGED <<df, alphabet, char2idx, detected, Q, A, tweet, params, ret>>

\* lines 152-154
MergeAnswers ==
    /\ pc = "merge"
    /\ exchanges' = Merge(exchanges, df)
    /\ pc' = "company"
    /\ UNCHANGED <<df, alphabet, char2idx, detected, Q, A, tweet, params, ret>>

\* lines 156-157
Company ==
    /\ pc = "company"
    /\ exchanges' = FilterCompany(exchanges)
    /\ pc' = "lower"
    /\ UNCHANGED <<df, alphabet, char2idx, detected, Q, A, tweet, params, ret>>

\* lines 160-161
LowerCase ==
    /\ pc = "lower"
    /\ exchanges' = LowerTexts(exchanges)
    /\ pc' = "language"
    /\ UNCHANGED <<df, alphabet, char2idx, detected, Q, A, tweet, params, ret>>

\* lines 164-165
DetectLanguage ==
    /\ pc = "language"
    /\ \E outcomes \in [1..Len(exchanges) -> [x : DetectOutcomes, y : DetectOutcomes]] :
          /\ detected' = outcomes
          /\ exchanges' = AddLanguage(exchanges, outcomes)
    /\ pc' = "keep_en"
    /\ UNCHANGED <<df, alphabet, char2idx, Q, A, tweet, params, ret>>

\* lines 166-167
KeepEnglish ==
    /\ pc = "keep_en"
    /\ exchanges' = KeepEnglishRows(exchanges)
    /\ pc' = "complete"
    /\ UNCHANGED <<df, alphabet, char2idx, detected, Q, A, tweet, params, ret>>

\* line 170
KeepComplete ==
    /\ pc = "complete"
    /\ exchanges' = KeepCompleteRows(exchanges)
    /\ pc' = "clean"
    /\ UNCHANGED <<df, alphabet, char2idx, detected, Q, A, tweet, params, ret>>

\* lines 173-174
Clean ==
    /\ pc = "clean"
    /\ exchanges' = CleanRows(exchanges)
    /\ pc' = "project"
    /\ UNCHANGED <<df, alphabet, char2idx, detected, Q, A, tweet, params, ret>>

\* lines 177-180
Project ==
    /\ pc = "project"
    /\ exchanges' = ProjectRows(exchanges, alphabet)
    /\ pc' = "vectorize"
    /\ UNCHANGED <<df, alphabet, char2idx, detected, Q, A, tweet, params, ret>>

\* line 275, vectorize_dataset raising: the run ends with the exception
VectorizeRaise ==
    /\ pc = "vectorize"
    /\ vectorize_dataset_raises(exchanges)
    /\ pc' = "ValueError"
    /\ UNCHANGED <<df, alphabet, char2idx, exchanges, detected, Q, A, tweet, params, ret>>

\* line 275
Vectorize ==
    /\ pc = "vectorize"
    /\ ~vectorize_dataset_raises(exchanges)
    /\ Q' = vectorize_dataset(exchanges, char2idx).Q
    /\ A' = vectorize_dataset(exchanges, char2idx).A
    /\ pc' = "split"
    /\ UNCHANGED <<df, alphabet, char2idx, exchanges, detected, tweet, params, ret>>

\* lines 278-281
SplitData ==
    /\ pc = "split"
    /\ \E perm \in RowOrders(Len(Q)) :
          ret' = train_test_val_split(Q, A,
                                      FloatOfRatio(params[1], SplitDenominator),
                                      FloatOfRatio(params[2], SplitDenominator), perm)
    /\ pc' = "expand"
    /\ UNCHANGED <<df, alphabet, char2idx, exchanges, detected, Q, A, tweet, params>>

\* lines 285-289
Return ==
    /\ pc = "expand"
    /\ ret' = [Q_train |-> ret.Q_train, A_train |-> ExpandDims(ret.A_train),
               Q_val |-> ret.Q_val, A_val |-> ExpandDims(ret.A_val),
               Q_test |-> ret.Q_test, A_test |-> ExpandDims(ret.A_test),
               char2idx |-> char2idx]
    /\ pc' = "returned"
    /\ UNCHANGED <<df, alphabet, char2idx, exchanges, detected, Q, A, tweet, params>>

Next ==
    \/ ReadCsv \/ Select \/ MergeAnswers \/ Company \/ LowerCase \/ DetectLanguage
    \/ KeepEnglish \/ KeepComplete \/ Clean \/ Project \/ VectorizeRaise \/ Vectorize
    \/ SplitData \/ Return

Spec == Init /\ [][Next]_vars

(***************************************************************************)
(* Properties of train_test_val_split (specification SpecSplit).           *)
(***************************************************************************)
\* C3: train, validation and test are the shuffled rows [0, train_end),
\* [train_end, val_end) and [val_end, N), with train_end the floor of
\* N * (1 - val_size - test_size) and val_end the floor of N * (1 - test_size);
\* the three parts are disjoint, together they are the N rows, and Q and A
\* are cut alike.
C3_SplitAtFloorCutoffs ==
    pc = "split_done" =>
        LET N         == Len(Q)
            train_end == (N * (SplitDenominator - params[1] - params[2])) \div SplitDenominator
            val_end   == (N * (SplitDenominator - params[2])) \div SplitDenominator
            Qall      == ret.Q_train \o ret.Q_val \o ret.Q_test
            Aall      == ret.A_train \o ret.A_val \o ret.A_test
        IN  /\ Len(ret.Q_train) = train_end /\ Len(ret.A_train) = train_end
            /\ Len(ret.Q_val) = val_end - train_end /\ Len(ret.A_val) = val_end - train_end
            /\ Len(ret.Q_test) = N - val_end /\ Len(ret.A_test) = N - val_end
            /\ Range(Qall) = Range(Q)
            /\ \A j \in 1..N : Aall[j][1] = Qall[j][1] + N

(***************************************************************************)
(* Properties of a run of get_amazon_dataset (specification Spec).         *)
(***************************************************************************)
\* the pairs (question row, answer row) of df that the claims speak of
StarterReplies ==
    {p \in (1..Len(df)) \X (1..Len(df)) :
        /\ df[p[1]].inbound
        /\ df[p[1]].in_response_to_tweet_id = NaN
        /\ df[p[2]].in_response_to_tweet_id = df[p[1]].tweet_id
        /\ df[p[2]].author_id = "AmazonHelp"}

\* row is what the pipeline makes of the texts of the pair p (organize_QA_dataframe
\* has returned when pc is "vectorize"; the exchanges do not change afterwards)
ComesFrom(row, p) ==
    /\ row.text_x = process_x_text(clean_text(Lower(df[p[1]].text)), alphabet)
    /\ row.text_y = process_y_text(clean_text(Lower(df[p[2]].text)), alphabet)

\* C4: every exchange comes from an inbound question without reply reference
\* and an answer by AmazonHelp whose reply reference is the question's
\* tweet_id; right after the join and the company filter the exchanges are
\* exactly those pairs, and a starter without such a reply yields none.
C4_ExchangesAreStarterReplies ==
    /\ pc = "lower" =>
          /\ Len(exchanges) = Cardinality(StarterReplies)
          /\ \A k \in 1..Len(exchanges) : \E p \in StarterReplies :
                exchanges[k] = [text_x |-> df[p[1]].text, text_y |-> df[p[2]].text]
          /\ \A p \in StarterReplies : \E k \in 1..Len(exchanges) :
                exchanges[k] = [text_x |-> df[p[1]].text, text_y |-> df[p[2]].text]
    /\ pc = "vectorize" =>
          /\ Len(exchanges) <= Cardinality(StarterReplies)
          /\ \A k \in 1..Len(exchanges) : \E p \in StarterReplies : ComesFrom(exchanges[k], p)

\* a customer's question answered by AmazonHelp came out as the one exchange
C4_Witness ==
    /\ pc = "vectorize"
    /\ Len(exchanges) = 1
    /\ Cardinality(StarterReplies) = 1
    /\ df[1].author_id = "115712" /\ df[2].author_id = "AmazonHelp"

DetectedEnglish(outcome) == outcome \in {"en", "LangDetectException"}

\* C6: a pair passes the language filter exactly when, on each side, the
\* detector answered 'en' or failed; a failure is no error of the run.
C6_LanguageFilterFailsOpen ==
    [][/\ pc = "language" => pc' = "keep_en"
       /\ pc = "keep_en" =>
             /\ pc' = "complete"
             /\ LET passed == SelectSeq([k \in 1..Len(exchanges) |-> k],
                                  LAMBDA k : /\ DetectedEnglish(detected[k].x)
                                             /\ DetectedEnglish(detected[k].y))
                IN  exchanges' = [i \in 1..Len(passed) |->
                                     [text_x |-> exchanges[passed[i]].text_x,
                                      text_y |-> exchanges[passed[i]].text_y]]]_vars

\* the detector failed on the question, answered 'en' for the answer, and the
\* pair passed the filter
C6_Witness ==
    /\ pc = "complete"
    /\ Len(detected) = 1
    /\ detected[1] = [x |-> "LangDetectException", y |-> "en"]
    /\ Len(exchanges) = 1

\* C7: with no exchange left after organize_QA_dataframe the run ends in an
\* error and returns no matrices.
C7_EmptyResultIsFatal ==
    /\ (pc = "vectorize" /\ Len(exchanges) = 0) => (ENABLED VectorizeRaise /\ ~ENABLED Vectorize)
    /\ pc \in {"split", "expand", "returned"} => Len(exchanges) > 0
    /\ pc = "returned" => Len(ret.Q_train) + Len(ret.Q_val) + Len(ret.Q_test) > 0

\* the only exchange of the table was dropped by the language filter and the
\* run ended with the exception
C7_Witness ==
    /\ pc = "ValueError"
    /\ Cardinality(StarterReplies) = 1
    /\ Len(detected) = 1 /\ detected[1].y = "ja"
    /\ exchanges = <<>>

EndsWithPartMarker(t) == EndsWith(t, PartOneOfTwo) \/ EndsWith(t, PartTwoOfTwo)

\* C8: when clean_text is about to run the texts are lower-cased, the language
\* columns are gone and no answer ends with '(1/2)' or '(2/2)'; every exchange
\* of the output comes from a pair whose answer, before normalization, did not
\* end with a part marker.
C8_IncompleteDroppedBeforeCleaning ==
    /\ pc = "clean" =>
          \A k \in 1..Len(exchanges) :
              /\ DOMAIN exchanges[k] = {"text_x", "text_y"}
              /\ exchanges[k].text_x = Lower(exchanges[k].text_x)
              /\ exchanges[k].text_y = Lower(exchanges[k].text_y)
              /\ ~EndsWithPartMarker(exchanges[k].text_y)
    /\ pc = "vectorize" =>
          \A k \in 1..Len(exchanges) : \E p \in StarterReplies :
              /\ ~EndsWithPartMarker(Lower(df[p[2]].text))
              /\ ComesFrom(exchanges[k], p)

\* an English pair whose answer ends with '(2/2)' is gone when clean_text is
\* about to run
C8_Witness ==
    /\ pc = "clean"
    /\ Cardinality(StarterReplies) = 1
    /\ \E p \in StarterReplies : EndsWith(df[p[2]].text, PartTwoOfTwo)
    /\ Len(detected) = 1 /\ detected[1] = [x |-> "en", y |-> "en"]
    /\ exchanges = <<>>

Vectorized == {"split", "expand", "returned"}

\* the zeros of row lie in the padding that precedes the codes of text s, and
\* the codes are indices of the alphabet
ZeroOnlyAsPadding(row, s) ==
    \A j \in 1..Len(row) :
        /\ row[j] = 0 => j <= Len(row) - Len(s)
        /\ row[j] # 0 => row[j] \in 1..Len(alphabet)

\* C10 as stated: every character of every exchange is a key of char2idx, and
\* 0 occurs in Q and A only as left padding.
C10_EveryCharacterIndexed ==
    pc \in Vectorized =>
        \A k \in 1..Len(exchanges) :
            /\ Range(exchanges[k].text_x) \subseteq DOMAIN char2idx
            /\ Range(exchanges[k].text_y) \subseteq DOMAIN char2idx
            /\ ZeroOnlyAsPadding(Q[k], exchanges[k].text_x)
            /\ ZeroOnlyAsPadding(A[k], exchanges[k].text_y)

\* C10 amended: every character of an answer is a key of char2idx and every
\* character of a question is a key or the marker, which is no key; 0 occurs
\* in A only as left padding, and in Q as left padding or where the marker is.
C10_OnlyMarkerUnindexed ==
    pc \in Vectorized =>
        /\ "UUML" \notin DOMAIN char2idx
        /\ \A k \in 1..Len(exchanges) :
              LET x   == exchanges[k].text_x
                  pad == Len(Q[k]) - Len(x)
              IN  /\ Range(x) \subseteq DOMAIN char2idx \cup {"UUML"}
                  /\ Range(exchanges[k].text_y) \subseteq DOMAIN char2idx
                  /\ ZeroOnlyAsPadding(A[k], exchanges[k].text_y)
                  /\ pad >= 0
                  /\ \A j \in 1..Len(Q[k]) :
                        /\ Q[k][j] = 0 <=> (j <= pad \/ x[j - pad] = "UUML")
                        /\ Q[k][j] # 0 => Q[k][j] \in 1..Len(alphabet)

\* a question with a character outside the alphabet: the marker is in the
\* text and a 0 stands at its place in Q, after a real character
C10_Witness ==
    /\ pc = "split"
    /\ Len(exchanges) = 1
    /\ exchanges[1].text_x = <<"a", "UUML", "b">>
    /\ exchanges[1].text_y = <<"a", " ", "b">>
    /\ Q[1] = <<char2idx["a"], 0, char2idx["b"]>>

====
